---- MODULE Spec2Model ----
(***************************************************************************)
(* Dialog scenario of the voice assistant (src/VOXIMPLANT_SCENARIO.js).    *)
(*                                                                         *)
(* One VoxEngine session drives one outbound call.  The scenario is a set  *)
(* of event handlers that run to completion on a single JavaScript thread; *)
(* every action below is one handler run, including every function it      *)
(* calls (speak, startListening, onRecognitionResult, processTextWithAI,   *)
(* handleError).  The platform (call, ASR, HTTP client) is the environment *)
(* and chooses which event is delivered next:                              *)
(*   - the ASR delivers CaptureStarted and Result, in any order and any    *)
(*     number, once it has received call audio (an event already on its    *)
(*     way is still delivered after stopMediaTo);                          *)
(*   - PlaybackFinished is delivered for a playback that is active; a      *)
(*     playback stopped by stopPlayback delivers none; say() on a call     *)
(*     that is playing takes over the call's single audio output;          *)
(*   - an HTTP request settles at any later time, once;                    *)
(*   - the callee may hang up at any time; after call.hangup() the only    *)
(*     event left is Disconnected, and VoxEngine.terminate() ends the      *)
(*     session.                                                            *)
(***************************************************************************)
EXTENDS Integers, Sequences, FiniteSets, TLC

(* ------------------------------ constants ------------------------------ *)

\* var MAX_TURNS = 12;
MAX_TURNS == 12

\* duration limit of an answered call, in seconds (technical task, 5.2)
MAX_CALL_DURATION_SEC == 120

\* setTimeout(..., 10000) of the outbound scenario: the call is hung up
\* ten seconds after it is answered
HANGUP_DELAY_SEC == 10

\* setTimeout(..., 1000) of the outbound scenario: the session is terminated
\* one second after a failed call
TERMINATE_DELAY_SEC == 1

(* -------------------------------- bounds ------------------------------- *)

\* accepted utterances the model follows beyond MAX_TURNS
MaxExtraTurns == 2
\* one-shot PlaybackFinished listeners that may be registered at once
MaxListeners == 3
\* process_text requests that may be in flight at once
MaxPending == 2
\* length of a recognised text
MaxTextLen == 2
\* seconds that pass in one step of the clock
TickSec == 60
\* call sessions the orchestrator creates
MaxCalls == 2
\* call sessions in the registry at once
MaxActive == 1
\* VoxEngine calls the bridge places (sdk.call)
MaxVoxCalls == 2
\* createDemoSession requests one form instance is followed for
MaxRequests == 3

(* ------------------------------- state --------------------------------- *)

VARIABLES
    phase,            \* "starting", "calling", "connected", "terminated"
    currentASR,       \* FALSE = null, TRUE = the ASR created by initASR
    isProcessing,
    isListening,
    isSpeaking,
    dialogTurnCount,
    listeners,        \* pending one-shot PlaybackFinished listeners, in
                      \* registration order; each entry is its hangupAfter
    playing,          \* platform: a playback started by say() is active
    routed,           \* platform: call audio is routed to the ASR
    asrFed,           \* platform: the ASR has received audio at least once
    greetingPending,  \* get_greeting request in flight
    greetingMessage,  \* var greetingMessage, as a symbolic text
    generatePending,  \* process_text requests in flight
    hungUp,           \* call.hangup() has been invoked
    elapsed,          \* seconds since the call was answered
    \* history variables (observation only)
    lastEvent,        \* name of the last handler that ran
    lastInput,        \* its input (recognised text or HTTP response)
    greetingLog,      \* the greetings saved to the history and spoken
    fx,               \* platform calls the last handler made, in order
    bargedIn,         \* a barge-in happened and no Result was delivered since
    sayOverlap,       \* say() was invoked while a playback was active
    doubleSend,       \* sendMediaTo was invoked while audio was routed
    requestsIssued,   \* process_text requests issued so far
    closingSpoken,    \* the closing line has been started
    failureSeen,      \* a generate failure has been handled
    apologyCount,     \* times the apology line has been started
    captureAfterClosing,
    captureAfterFailure,
    requestAfterFailure

\* Call orchestrator of the backend (Call Session Manager and Finalizer).
VARIABLES
    registry,         \* active sessions: call id -> CallSession
    nextId,           \* stands for the id generator: ids handed out so far + 1
    finalizing,       \* call id -> a running Finalizer was handed a
                      \* non-empty transcript
    finalizeRuns,     \* call id -> times the Finalizer was invoked
    persisted,        \* ids whose record the persistence collaborator stored
    \* history variables (observation only)
    everCreated,      \* ids returned by createCall, in order
    lastOp            \* the last operation of the orchestrator and its outcome

sessionVars == << registry, nextId, finalizing, finalizeRuns, persisted,
                  everCreated, lastOp >>

\* Audio bridge (src/voximplant-bridge/index.js).
VARIABLES
    activeCalls,      \* Map call_id -> {call, ws}; 0 stands for undefined
    voxCalls,         \* VoxEngine calls created by sdk.call, in order
    wss,              \* backend WebSockets created, in order
    \* history variable (observation only)
    bridgeOp          \* the last handler of the bridge, its call id and,
                      \* for an HTTP request, the status of the response

bridgeVars == << activeCalls, voxCalls, wss, bridgeOp >>

\* Outbound scenario (src/unnamed/part_004): one VoxEngine session.
VARIABLES
    callSession,      \* "null" | "ringing" | "connected" | "hangingUp" |
                      \* "ended" | "failed": the call and its state
    customData,       \* the parsed custom data: its call_id, "null" before
    webhookUrl,       \* "" when none is configured
    terminated,       \* VoxEngine.terminate() was called
    timers,           \* pending setTimeout callbacks: name -> seconds left
    \* history variables (observation only)
    webhooks,         \* the requests sendWebhook issued, in order
    outEvent          \* the last handler of the session and, for Failed,
                      \* the code of the event

outboundVars == << callSession, customData, webhookUrl, terminated, timers,
                   webhooks, outEvent >>

\* LaunchDemo form (src/frontend/src/api/client.js): one form instance.
VARIABLES
    formData,         \* the fields of the form that the model follows
    loading,          \* useState(false)
    error,            \* useState('')
    isSubmitting,     \* useRef(false).current
    inFlight,         \* createDemoSession requests that have not settled
    navigated,        \* navigate(`/status/...`) was called
    \* history variables (observation only)
    sent,             \* createDemoSession requests issued so far
    formEvent         \* the last handler of the form

formVars == << formData, loading, error, isSubmitting, inFlight, navigated,
               sent, formEvent >>

dialogVars == << phase, currentASR, isProcessing, isListening, isSpeaking,
           dialogTurnCount, listeners, playing, routed, asrFed,
           greetingPending, greetingMessage, greetingLog, generatePending,
           hungUp, elapsed, lastEvent,
           lastInput, fx, bargedIn, sayOverlap, doubleSend, requestsIssued,
           closingSpoken, failureSeen, apologyCount, captureAfterClosing,
           captureAfterFailure, requestAfterFailure >>

vars == << dialogVars, sessionVars, bridgeVars, outboundVars, formVars >>

\* The current state as one record, so that the functions of the scenario
\* can be written as functions from state to state.
Cur ==
    [ phase |-> phase, currentASR |-> currentASR,
      isProcessing |-> isProcessing, isListening |-> isListening,
      isSpeaking |-> isSpeaking, dialogTurnCount |-> dialogTurnCount,
      listeners |-> listeners, playing |-> playing, routed |-> routed,
      asrFed |-> asrFed, greetingPending |-> greetingPending,
      greetingMessage |-> greetingMessage, greetingLog |-> greetingLog,
      generatePending |-> generatePending, hungUp |-> hungUp,
      elapsed |-> elapsed,
      lastEvent |-> lastEvent, lastInput |-> lastInput, fx |-> fx,
      bargedIn |-> bargedIn, sayOverlap |-> sayOverlap,
      doubleSend |-> doubleSend, requestsIssued |-> requestsIssued,
      closingSpoken |-> closingSpoken, failureSeen |-> failureSeen,
      apologyCount |-> apologyCount,
      captureAfterClosing |-> captureAfterClosing,
      captureAfterFailure |-> captureAfterFailure,
      requestAfterFailure |-> requestAfterFailure ]

Commit(s) ==
    /\ phase' = s.phase
    /\ currentASR' = s.currentASR
    /\ isProcessing' = s.isProcessing
    /\ isListening' = s.isListening
    /\ isSpeaking' = s.isSpeaking
    /\ dialogTurnCount' = s.dialogTurnCount
    /\ listeners' = s.listeners
    /\ playing' = s.playing
    /\ routed' = s.routed
    /\ asrFed' = s.asrFed
    /\ greetingPending' = s.greetingPending
    /\ greetingMessage' = s.greetingMessage
    /\ greetingLog' = s.greetingLog
    /\ generatePending' = s.generatePending
    /\ hungUp' = s.hungUp
    /\ elapsed' = s.elapsed
    /\ lastEvent' = s.lastEvent
    /\ lastInput' = s.lastInput
    /\ fx' = s.fx
    /\ bargedIn' = s.bargedIn
    /\ sayOverlap' = s.sayOverlap
    /\ doubleSend' = s.doubleSend
    /\ requestsIssued' = s.requestsIssued
    /\ closingSpoken' = s.closingSpoken
    /\ failureSeen' = s.failureSeen
    /\ apologyCount' = s.apologyCount
    /\ captureAfterClosing' = s.captureAfterClosing
    /\ captureAfterFailure' = s.captureAfterFailure
    /\ requestAfterFailure' = s.requestAfterFailure
    /\ UNCHANGED << sessionVars, bridgeVars, outboundVars, formVars >>

\* A handler starts: the record of the last handler's calls is reset.
Begin(s, ev, input) ==
    [s EXCEPT !.lastEvent = ev, !.lastInput = input, !.fx = << >>]

\* greetingMessage once the Started handler has run: the built-in text, or
\* customData.greeting when the custom data has one
ConfiguredGreetings == {"default", "custom"}

\* The session before its Started handler has run: the globals have the
\* values of their declarations.

Init ==
    /\ phase = "starting"
    /\ currentASR = FALSE
    /\ isProcessing = FALSE
    /\ isListening = FALSE
    /\ isSpeaking = FALSE
    /\ dialogTurnCount = 0
    /\ listeners = << >>
    /\ playing = FALSE
    /\ routed = FALSE
    /\ asrFed = FALSE
    /\ greetingPending = FALSE
    /\ greetingMessage = "default"
    /\ greetingLog = << >>
    /\ generatePending = 0
    /\ hungUp = FALSE
    /\ elapsed = 0
    /\ lastEvent = "none"
    /\ lastInput = << >>
    /\ fx = << >>
    /\ bargedIn = FALSE
    /\ sayOverlap = FALSE
    /\ doubleSend = FALSE
    /\ requestsIssued = 0
    /\ closingSpoken = FALSE
    /\ failureSeen = FALSE
    /\ apologyCount = 0
    /\ captureAfterClosing = FALSE
    /\ captureAfterFailure = FALSE
    /\ requestAfterFailure = FALSE
    /\ registry = << >>
    /\ nextId = 1
    /\ finalizing = << >>
    /\ finalizeRuns = << >>
    /\ persisted = {}
    /\ everCreated = << >>
    /\ lastOp = [op |-> "none"]
    /\ activeCalls = << >>
    /\ voxCalls = << >>
    /\ wss = << >>
    /\ bridgeOp = [op |-> "none", callId |-> "", status |-> 0]
    /\ callSession = "null"
    /\ customData = "null"
    /\ webhookUrl = ""
    /\ terminated = FALSE
    /\ timers = << >>
    /\ webhooks = << >>
    /\ outEvent = [event |-> "none", code |-> 0]
    /\ formData = [phone |-> "", language |-> "auto"]
    /\ loading = FALSE
    /\ error = ""
    /\ isSubmitting = FALSE
    /\ inFlight = 0
    /\ navigated = FALSE
    /\ sent = 0
    /\ formEvent = "none"

(* ------------------------------ inputs --------------------------------- *)

\* Recognised texts: strings over a whitespace character and a letter.
\* The empty string also stands for an absent e.text (both are falsy).
Chars == {" ", "a"}

Texts == UNION { [1..n -> Chars] : n \in 0..MaxTextLen }

RECURSIVE TrimLeft(_)
TrimLeft(t) ==
    IF Len(t) > 0 /\ Head(t) = " " THEN TrimLeft(Tail(t)) ELSE t

RECURSIVE TrimRight(_)
TrimRight(t) ==
    IF Len(t) > 0 /\ t[Len(t)] = " "
    THEN TrimRight(SubSeq(t, 1, Len(t) - 1))
    ELSE t

\* String.prototype.trim
Trim(t) == TrimRight(TrimLeft(t))

\* the blank test without trim()
IsBlank_NoTrim(t) == Len(t) = 0

\* !e.text || !e.text.trim()
IsBlank(t) == Len(t) = 0 \/ Len(Trim(t)) = 0

\* What the HTTP client hands to the get_greeting callback: a status code
\* and a body.  A "greeting" body is JSON with a non-empty greeting,
\* "no_greeting" is JSON without one, "unparsable" is not JSON.
GreetingResponses ==
    [code : {200, 500}, body : {"greeting", "no_greeting", "unparsable"}]

\* What the HTTP client hands to processTextWithAI: a resolved promise with
\* a status code and a body, or a rejected promise (timeout, network error).
\* 429 is a rate limit, 500 a server error.  A "valid" body is JSON with an
\* ai_text string; "no_ai_text" is JSON without it; "unparsable" is not JSON.
Responses ==
    [settled : {"resolved"}, code : {200, 429, 500},
     body : {"valid", "no_ai_text", "unparsable"}]
    \cup {[settled |-> "rejected", code |-> 0, body |-> "none"]}

(* ----------------------- functions of the scenario --------------------- *)

\* function saveAIMessage(aiText): the save_ai_message request is sent
SaveAIMessage(s) ==
    [s EXCEPT !.fx = Append(@, <<"saveAIMessage">>)]

\* a teardown handler that does not terminate the session
Terminate_Skipped(s) == s

\* VoxEngine.terminate(): the session ends, no handler runs any more
Terminate(s) == [s EXCEPT !.phase = "terminated"]

\* currentCall.say(text, ...)
Say(s, line) ==
    [s EXCEPT !.sayOverlap = @ \/ s.playing,
              !.playing = TRUE,
              !.fx = Append(@, <<"say", line>>)]

\* startListening without the isListening test
StartListening_NoListeningTest(s) ==
    IF ~s.currentASR \/ s.isProcessing
    THEN s
    ELSE [s EXCEPT !.isListening = TRUE,
                   !.doubleSend = @ \/ s.routed,
                   !.routed = TRUE,
                   !.asrFed = TRUE,
                   !.captureAfterClosing = @ \/ s.closingSpoken,
                   !.captureAfterFailure = @ \/ s.failureSeen,
                   !.fx = Append(@, <<"sendMediaTo">>)]

\* startListening without the isProcessing test
StartListening_NoProcessingTest(s) ==
    IF ~s.currentASR \/ s.isListening
    THEN s
    ELSE [s EXCEPT !.isListening = TRUE,
                   !.doubleSend = @ \/ s.routed,
                   !.routed = TRUE,
                   !.asrFed = TRUE,
                   !.captureAfterClosing = @ \/ s.closingSpoken,
                   !.captureAfterFailure = @ \/ s.failureSeen,
                   !.fx = Append(@, <<"sendMediaTo">>)]

\* function startListening()
StartListening(s) ==
    IF ~s.currentASR \/ s.isProcessing \/ s.isListening
    THEN s
    ELSE [s EXCEPT !.isListening = TRUE,
                   !.doubleSend = @ \/ s.routed,
                   !.routed = TRUE,
                   !.asrFed = TRUE,
                   !.captureAfterClosing = @ \/ s.closingSpoken,
                   !.captureAfterFailure = @ \/ s.failureSeen,
                   !.fx = Append(@, <<"sendMediaTo">>)]

\* function speak(text, hangupAfter), up to the registration of the
\* one-shot PlaybackFinished listener
Speak(s, line, hangupAfter) ==
    LET s1 == [s EXCEPT !.isSpeaking = TRUE]
        s2 == Say(s1, line)
        s3 == StartListening(s2)
    IN  [s3 EXCEPT !.listeners = Append(@, hangupAfter)]

\* currentCall.hangup()
Hangup(s) ==
    [s EXCEPT !.hungUp = TRUE, !.fx = Append(@, <<"hangup">>)]

\* the body of the one-shot listener `once` registered by speak
RunListener(s, hangupAfter) ==
    LET s1 == [s EXCEPT !.isSpeaking = FALSE, !.isProcessing = FALSE]
    IN  IF hangupAfter
        THEN Hangup(s1)
        ELSE IF ~s1.isListening THEN StartListening(s1) ELSE s1

\* the platform dispatches PlaybackFinished to every registered listener,
\* in registration order
RECURSIVE RunListeners(_, _)
RunListeners(s, ls) ==
    IF ls = << >> THEN s
    ELSE RunListeners(RunListener(s, Head(ls)), Tail(ls))

\* function handleError()
HandleError(s) ==
    Speak([s EXCEPT !.failureSeen = TRUE, !.apologyCount = @ + 1],
          "apology", TRUE)

\* processTextWithAI, up to the request being sent
ProcessTextWithAI(s) ==
    [s EXCEPT !.generatePending = @ + 1,
              !.requestsIssued = @ + 1,
              !.requestAfterFailure = @ \/ s.failureSeen,
              !.fx = Append(@, <<"request">>)]

\* the turn limit test, off by one
TurnLimitExceeded_OffByOne(n) == n > MAX_TURNS + 1

\* dialogTurnCount > MAX_TURNS
TurnLimitExceeded(n) == n > MAX_TURNS

\* function onRecognitionResult(userText)
OnRecognitionResult(s) ==
    LET s1 == [s EXCEPT !.isProcessing = TRUE, !.dialogTurnCount = @ + 1]
    IN  IF TurnLimitExceeded(s1.dialogTurnCount)
        THEN Speak([s1 EXCEPT !.closingSpoken = TRUE], "closing", TRUE)
        ELSE ProcessTextWithAI(s1)

\* the CaptureStarted handler without `isProcessing = false`
OnCaptureStarted_KeepProcessing(s) ==
    IF s.isSpeaking
    THEN [s EXCEPT !.playing = FALSE,
                   !.isSpeaking = FALSE,
                   !.fx = Append(@, <<"stopPlayback">>)]
    ELSE s

\* the ASREvents.CaptureStarted handler
OnCaptureStarted(s) ==
    IF s.isSpeaking
    THEN [s EXCEPT !.playing = FALSE,
                   !.isSpeaking = FALSE,
                   !.isProcessing = FALSE,
                   !.fx = Append(@, <<"stopPlayback">>)]
    ELSE s

\* the Result handler without the isProcessing guard
OnResult_NoGuard(s, text) ==
    LET s1 == [s EXCEPT !.routed = FALSE,
                        !.isListening = FALSE,
                        !.fx = Append(@, <<"stopMediaTo">>)]
    IN  IF IsBlank(text)
        THEN Speak(s1, "reprompt", FALSE)
        ELSE OnRecognitionResult(s1)

\* the ASREvents.Result handler
OnResult(s, text) ==
    IF s.isProcessing THEN s
    ELSE LET s1 == [s EXCEPT !.routed = FALSE,
                             !.isListening = FALSE,
                             !.fx = Append(@, <<"stopMediaTo">>)]
         IN  IF IsBlank(text)
             THEN Speak(s1, "reprompt", FALSE)
             ELSE OnRecognitionResult(s1)

\* the .then / .catch continuation of processTextWithAI
GenerateSucceeded(r) ==
    r.settled = "resolved" /\ r.code = 200 /\ r.body = "valid"

OnGenerateSettled(s, r) ==
    IF GenerateSucceeded(r) THEN Speak(s, "reply", FALSE) ELSE HandleError(s)

ParseGreeting_AnyCode(current, r) ==
    IF r.body = "greeting" THEN "backend" ELSE current

\* greetingMessage after the response was looked at: data.greeting of a
\* 200 response whose body parses and has one, else what it was
ParseGreeting(current, r) ==
    IF r.code = 200 /\ r.body = "greeting" THEN "backend" ELSE current

\* the callback of Net.httpRequest in onCallConnected
OnGreetingResponse(s, r) ==
    LET g == ParseGreeting(s.greetingMessage, r)
        s1 == [s EXCEPT !.greetingPending = FALSE, !.greetingMessage = g]
        s2 == [SaveAIMessage(s1) EXCEPT
                  !.greetingLog = Append(@, <<"save", g>>)]
    IN  [Speak(s2, "greeting", FALSE) EXCEPT
            !.greetingLog = Append(@, <<"say", g>>)]

(* ------------------------------ actions -------------------------------- *)

\* events of the call are delivered while it is connected and not hung up
Alive == phase = "connected" /\ ~hungUp

\* the functions that call speak register one more listener
ListenerRoom == Len(listeners) < MaxListeners

\* AppEvents.Started: the custom data is read (with a greeting or without
\* one) and the call is placed
Started ==
    \E custom \in BOOLEAN :
        /\ phase = "starting"
        /\ Commit([Begin(Cur, "Started", << >>) EXCEPT
                      !.phase = "calling",
                      !.greetingMessage = IF custom THEN "custom" ELSE @])

\* CallEvents.Connected: onCallConnected
CallConnected ==
    /\ phase = "calling"
    /\ Commit([Begin(Cur, "Connected", << >>) EXCEPT
                  !.phase = "connected",
                  !.currentASR = TRUE,
                  !.greetingPending = TRUE])

\* the get_greeting callback: saveAIMessage(greeting); speak(greeting)
GreetingResponse ==
    \E r \in GreetingResponses :
        /\ Alive
        /\ greetingPending
        /\ ListenerRoom
        /\ Commit(OnGreetingResponse(Begin(Cur, "GreetingResponse", r), r))

\* ASREvents.CaptureStarted
CaptureStarted ==
    /\ Alive
    /\ currentASR
    /\ asrFed
    /\ LET s == OnCaptureStarted(Begin(Cur, "CaptureStarted", << >>))
       IN  Commit([s EXCEPT !.bargedIn = @ \/ isSpeaking])

\* ASREvents.Result
Result ==
    /\ Alive
    /\ currentASR
    /\ asrFed
    /\ ListenerRoom
    /\ generatePending < MaxPending
    /\ dialogTurnCount < MAX_TURNS + MaxExtraTurns
    /\ \E text \in Texts :
          Commit([OnResult(Begin(Cur, "Result", text), text) EXCEPT
                     !.bargedIn = FALSE])

\* the process_text request settles
GenerateResponse ==
    /\ Alive
    /\ generatePending > 0
    /\ ListenerRoom
    /\ \E r \in Responses :
          Commit(OnGenerateSettled(
                    [Begin(Cur, "GenerateResponse", r) EXCEPT
                        !.generatePending = @ - 1], r))

\* CallEvents.PlaybackFinished: every registered one-shot listener runs and
\* removes itself
PlaybackFinished ==
    /\ Alive
    /\ playing
    /\ Commit(RunListeners([Begin(Cur, "PlaybackFinished", << >>) EXCEPT
                               !.playing = FALSE,
                               !.listeners = << >>],
                           listeners))

\* CallEvents.Disconnected: onCallDisconnected (the callee hangs up at any
\* time, or the call ends after call.hangup())
CallDisconnected ==
    /\ phase = "connected"
    /\ Commit(Terminate(
                 [Begin(Cur, "Disconnected", << >>) EXCEPT
                     !.routed = FALSE,
                     !.playing = FALSE,
                     !.fx = IF currentASR THEN << <<"stopMediaTo">> >>
                                          ELSE << >>]))

\* CallEvents.Failed: onCallFailed
CallFailed ==
    /\ phase = "calling"
    /\ Commit(Terminate(Begin(Cur, "Failed", << >>)))

Next ==
    \/ Started
    \/ CallConnected
    \/ GreetingResponse
    \/ CaptureStarted
    \/ Result
    \/ GenerateResponse
    \/ PlaybackFinished
    \/ CallDisconnected
    \/ CallFailed

Spec == Init /\ [][Next]_vars

\* time passes while the call is answered
Tick ==
    /\ Alive
    /\ elapsed < MAX_CALL_DURATION_SEC
    /\ Commit([Begin(Cur, "Tick", << >>) EXCEPT !.elapsed = @ + TickSec])

NextTimed ==
    \/ Next
    \/ Tick

\* the dialog scenario with the clock of the call
SpecTimed == Init /\ [][NextTimed]_vars

\* CallEvents.PlaybackFinished of a playback that stopPlayback ended: the
\* listeners left registered by the barge-in run.  Whether the platform
\* sends this event is not settled by the scenario; it may.
StoppedPlaybackFinished ==
    /\ Alive
    /\ ~playing
    /\ listeners # << >>
    /\ Commit(RunListeners([Begin(Cur, "PlaybackFinished", << >>) EXCEPT
                               !.listeners = << >>],
                           listeners))

NextStopEvent ==
    \/ Next
    \/ StoppedPlaybackFinished

\* the dialog scenario on a platform that reports a stopped playback
SpecStopEvent == Init /\ [][NextStopEvent]_vars

(* ------------------------------ properties ----------------------------- *)

\* the last handler made platform call e
FxHas(f, e) == \E i \in 1..Len(f) : f[i] = e

FinalLines == {"closing", "apology"}
NonFinalLines == {"greeting", "reprompt", "reply"}

\* the flags, counters, listeners and platform state a handler can change
ProgState ==
    << isProcessing, isListening, isSpeaking, dialogTurnCount, listeners,
       playing, routed, generatePending, greetingPending, hungUp,
       requestsIssued, phase, currentASR >>

\* timeout or network error (rejected promise), or rate limit (429)
IsTransient(r) == r.settled = "rejected" \/ r.code = 429

\* C1 (barge-in): when CaptureStarted is handled in a state with isSpeaking,
\* then right after the handler isSpeaking and isProcessing are false, the
\* handler's only platform call is stopPlayback (so the playback is stopped
\* and no sendMediaTo is issued, the routing and isListening are untouched),
\* and the next Result that is delivered is accepted: it passes the
\* isProcessing guard and stops the capture.
C1_BargeIn ==
    [][ /\ (lastEvent' = "CaptureStarted" /\ isSpeaking) =>
              /\ ~isSpeaking'
              /\ ~isProcessing'
              /\ ~playing'
              /\ fx' = << <<"stopPlayback">> >>
              /\ routed' = routed
              /\ isListening' = isListening
        /\ (bargedIn /\ ~bargedIn' /\ lastEvent' = "Result") =>
              /\ Len(fx') > 0
              /\ fx'[1] = <<"stopMediaTo">>
      ]_vars

\* a barge-in has just been handled while the capture is active
C1_Witness ==
    /\ lastEvent = "CaptureStarted"
    /\ bargedIn
    /\ fx = << <<"stopPlayback">> >>
    /\ isListening

\* C2: at most one process_text request is outstanding, and none is
\* outstanding while the capture for the next utterance is active.
C2_SingleGenerate ==
    /\ generatePending <= 1
    /\ generatePending > 0 => ~isListening

\* C3: say() is never invoked while a playback started earlier has neither
\* finished nor been stopped.
C3_SinglePlayback == ~sayOverlap

\* C4 (turn limit): the number of process_text requests never exceeds
\* MAX_TURNS; every accepted non-blank utterance up to MAX_TURNS is sent,
\* and from the (MAX_TURNS+1)-th on no request is issued and the closing
\* line is spoken instead.
C4_TurnLimit ==
    /\ requestsIssued <= MAX_TURNS
    /\ dialogTurnCount <= MAX_TURNS => requestsIssued = dialogTurnCount
    /\ dialogTurnCount > MAX_TURNS =>
          /\ requestsIssued = MAX_TURNS
          /\ closingSpoken

\* the (MAX_TURNS+1)-th utterance has just been accepted
C4_Witness ==
    /\ lastEvent = "Result"
    /\ dialogTurnCount = MAX_TURNS + 1
    /\ requestsIssued = MAX_TURNS
    /\ FxHas(fx, <<"say", "closing">>)
    /\ ~FxHas(fx, <<"request">>)

\* C5: once the closing line has been started, no capture is started
\* during or after it, and hangup is invoked only by the PlaybackFinished
\* handler.
C5_ClosingThenHangup ==
    /\ closingSpoken => ~captureAfterClosing
    /\ FxHas(fx, <<"hangup">>) => lastEvent = "PlaybackFinished"

\* C6 (events outside their legal state are no-ops): a Result handled
\* while isProcessing, and a CaptureStarted handled while not isSpeaking,
\* change nothing and make no platform call.  A Result handled while not
\* isProcessing first stops the capture (isListening is cleared), and for
\* a non-blank text marks the turn as processing, counts it, and issues a
\* process_text request, or speaks the closing line beyond the turn limit.
C6_Frame ==
    [][ /\ (lastEvent' = "Result" /\ isProcessing) =>
              /\ ProgState' = ProgState
              /\ fx' = << >>
        /\ (lastEvent' = "CaptureStarted" /\ ~isSpeaking) =>
              /\ ProgState' = ProgState
              /\ fx' = << >>
        /\ (lastEvent' = "Result" /\ ~isProcessing) =>
              /\ Len(fx') > 0
              /\ fx'[1] = <<"stopMediaTo">>
              /\ IsBlank(lastInput') =>
                    /\ ~isProcessing'
                    /\ dialogTurnCount' = dialogTurnCount
                    /\ ~FxHas(fx', <<"request">>)
              /\ ~IsBlank(lastInput') =>
                    /\ ~isListening'
                    /\ ~routed'
                    /\ isProcessing'
                    /\ dialogTurnCount' = dialogTurnCount + 1
                    /\ IF dialogTurnCount' > MAX_TURNS
                       THEN /\ FxHas(fx', <<"say", "closing">>)
                            /\ generatePending' = generatePending
                       ELSE /\ FxHas(fx', <<"request">>)
                            /\ generatePending' = generatePending + 1
      ]_vars

\* a Result has just been dropped by the isProcessing guard
C6_Witness ==
    /\ lastEvent = "Result"
    /\ isProcessing
    /\ fx = << >>
    /\ generatePending > 0

C8_BargeInWindow ==
    (\E line \in NonFinalLines : FxHas(fx, <<"say", line>>)) => isListening

\* C9 (fatal provider error): after a generate failure the apology line
\* has been spoken exactly once, no further process_text request is issued
\* and no capture is started.
C9_FatalError ==
    failureSeen =>
        /\ apologyCount = 1
        /\ ~requestAfterFailure
        /\ ~captureAfterFailure

\* C10 (transient errors are retried): the first transient failure of a
\* process_text request (timeout, rate limit) is answered by a retry of the
\* request, not by the apology line.
C10_TransientRetried ==
    (/\ lastEvent = "GenerateResponse"
     /\ IsTransient(lastInput)
     /\ apologyCount <= 1) =>
        /\ ~FxHas(fx, <<"say", "apology">>)
        /\ FxHas(fx, <<"request">>)

\* a text that is empty or consists of whitespace only
BlankText(t) == \A i \in 1..Len(t) : t[i] = " "

RepromptFx ==
    << <<"stopMediaTo">>, <<"say", "reprompt">>, <<"sendMediaTo">> >>

\* C11 (blank transcript): an accepted Result whose text is empty or
\* whitespace-only is no user turn: dialogTurnCount and isProcessing are
\* unchanged, no process_text request is issued, and the handler stops the
\* capture, speaks the re-prompt and starts the capture again.
C11_BlankIgnored ==
    [][ (lastEvent' = "Result" /\ ~isProcessing /\ BlankText(lastInput')) =>
            /\ dialogTurnCount' = dialogTurnCount
            /\ ~isProcessing'
            /\ generatePending' = generatePending
            /\ requestsIssued' = requestsIssued
            /\ fx' = RepromptFx
            /\ isListening'
            /\ routed'
      ]_vars

\* a whitespace-only Result has just been answered by the re-prompt
C11_Witness ==
    /\ lastEvent = "Result"
    /\ lastInput = << " ", " " >>
    /\ fx = RepromptFx
    /\ isListening
    /\ ~isProcessing

\* C12 (re-prompt once): a blank Result that directly follows a blank
\* Result already answered by the re-prompt is not answered by a second
\* re-prompt.
C12_RepromptOnce ==
    [][ (/\ lastEvent = "Result"
         /\ FxHas(fx, <<"say", "reprompt">>)
         /\ lastEvent' = "Result"
         /\ BlankText(lastInput')) =>
            ~FxHas(fx', <<"say", "reprompt">>)
      ]_vars

TeardownEvents == {"Disconnected", "Failed"}

\* C13 (teardown): once the Disconnected or Failed handler has run, no
\* handler runs any more: a get_greeting or process_text response still in
\* flight is never applied (no speak, no capture start, no hangup, no
\* request).
C13_TeardownFinal ==
    [][ (lastEvent \in TeardownEvents) =>
            /\ lastEvent' = lastEvent
            /\ fx' = fx
            /\ ProgState' = ProgState
      ]_vars

\* the call was torn down while a process_text request was in flight
C13_Witness ==
    /\ lastEvent = "Disconnected"
    /\ phase = "terminated"
    /\ generatePending > 0

\* C14 (duration limit): a handler of the dialog that runs on an answered
\* call whose elapsed time has reached the limit ends the call: the closing
\* line has been spoken.
C14_DurationLimit ==
    (/\ phase = "connected"
     /\ elapsed >= MAX_CALL_DURATION_SEC
     /\ lastEvent \in {"Result", "GenerateResponse", "PlaybackFinished"}) =>
        closingSpoken

\* C15 as stated: at most one of the three flags is true.
C15_FourStates ==
    /\ ~(isSpeaking /\ isListening)
    /\ ~(isSpeaking /\ isProcessing)
    /\ ~(isListening /\ isProcessing)

\* C15 (amended): the flags <<isSpeaking, isProcessing, isListening>> take
\* one of six combinations: none, one flag alone, speaking with listening
\* (barge-in window) or speaking with processing (a reply, closing or
\* apology line is played).
C15_SixStates ==
    << isSpeaking, isProcessing, isListening >> \in
        { << FALSE, FALSE, FALSE >>, << TRUE, FALSE, FALSE >>,
          << FALSE, TRUE, FALSE >>, << FALSE, FALSE, TRUE >>,
          << TRUE, FALSE, TRUE >>, << TRUE, TRUE, FALSE >> }

\* the greeting is played with the capture on
C15_Witness ==
    /\ lastEvent = "GreetingResponse"
    /\ isSpeaking
    /\ isListening
    /\ ~isProcessing

\* C16 (history order): a process_text request is sent only after the
\* greeting has been saved, and only when no earlier request is waiting for
\* its reply.
C16_HistoryOrder ==
    /\ requestsIssued > 0 => (phase # "calling" /\ ~greetingPending)
    /\ FxHas(fx, <<"request">>) => generatePending = 1

(***************************************************************************)
(* Call orchestrator: Call Session Manager and Finalizer.                  *)
(*                                                                         *)
(* The orchestrator is modelled from its description: the state machine   *)
(* and contracts of the specification (4.1, 4.4), the technical task       *)
(* (src/unnamed/part_003) and the orchestrator checklist                   *)
(* (src/VOXIMPLANT_SETUP.md, Checkpoint 8.1).                              *)
(* A (status, event) pair that the transition table does not list is no    *)
(* transition.  The telephony engine delivers events for a call only once  *)
(* the call has been dialed; an event may also arrive for an id that is    *)
(* not, or no longer, in the registry.  Time is counted from the instant   *)
(* the call is answered; how long a call lasts is the environment's choice.*)
(***************************************************************************)

CallIds == 1..MaxCalls

TelephonyEvents == {"ringing", "answered", "busy", "no_answer", "hangup", "error"}

TerminalStatuses == {"NoAnswer", "Completed", "Failed"}

Dispositions == {"Interested", "NotInterested", "CallLater", "Neutral", "Unknown"}

\* startedAt / endedAt not set
NoTime == 0 - 1

\* seconds between the answer and the end of a call (sample values); for
\* a call that was not answered, seconds between the dial and its end
Elapsed == {0, 30}

Digits == {"0", "1", "2", "3", "4", "5", "6", "7", "8", "9"}

\* phone numbers that match ^(\+7|8)\d{10}$
WellFormedPhones ==
    { <<"+", "7", "9", "0", "0", "1", "2", "3", "4", "5", "6", "7">>,
      <<"8", "9", "0", "0", "1", "2", "3", "4", "5", "6", "7">> }

\* phone numbers that do not: empty, too short, a letter, no prefix,
\* another country code, too long
MalformedPhones ==
    { << >>,
      <<"+", "7", "9", "0", "0">>,
      <<"+", "7", "9", "0", "0", "1", "2", "3", "4", "5", "6", "a">>,
      <<"7", "9", "0", "0", "1", "2", "3", "4", "5", "6", "7">>,
      <<"+", "1", "5", "5", "5", "1", "2", "3", "0", "0", "0", "0">>,
      <<"8", "9", "0", "0", "1", "2", "3", "4", "5", "6", "7", "8">> }

PhoneInputs == WellFormedPhones \cup MalformedPhones

\* a validation that looks at the prefix only
ValidPhone_PrefixOnly(p) ==
    \/ Len(p) >= 2 /\ p[1] = "+" /\ p[2] = "7"
    \/ Len(p) >= 1 /\ p[1] = "8"

\* regex ^(\+7|8)\d{10}$
ValidPhone(p) ==
    \/ Len(p) = 12 /\ p[1] = "+" /\ p[2] = "7" /\ \A i \in 3..12 : p[i] \in Digits
    \/ Len(p) = 11 /\ p[1] = "8" /\ \A i \in 2..11 : p[i] \in Digits

\* phone = normalized_phone (+7...)
NormalizePhone(p) == IF p[1] = "8" THEN <<"+", "7">> \o Tail(p) ELSE p

NewSession(phone) ==
    [ phone |-> NormalizePhone(phone), status |-> "Created",
      startedAt |-> NoTime, endedAt |-> NoTime, hasTurns |-> FALSE,
      disposition |-> "none", duration |-> NoTime ]

Remove(f, id) == [i \in DOMAIN f \ {id} |-> f[i]]

Put(f, id, v) == [i \in DOMAIN f \cup {id} |-> IF i = id THEN v ELSE f[i]]

Runs(id) == IF id \in DOMAIN finalizeRuns THEN finalizeRuns[id] ELSE 0

Op(op, id, arg, outcome) == [op |-> op, id |-> id, arg |-> arg, outcome |-> outcome]

\* status a terminal telephony event leads to
FailureStatuses(ev) ==
    CASE ev = "busy" -> {"NoAnswer", "Failed"}
      [] ev = "no_answer" -> {"NoAnswer"}
      [] ev = "error" -> {"Failed"}
      [] OTHER -> {"Completed"}

\* a handler that looks at the event only, never at the session's status
HandleTelephonyEvent_NoTerminalGuard(sess, ev, target, t) ==
    CASE ev = "ringing" ->
            [ sess |-> [sess EXCEPT !.status = "Dialing"],
              finalize |-> FALSE, transcript |-> FALSE ]
      [] ev = "answered" ->
            [ sess |-> [sess EXCEPT !.status = "InProgress", !.startedAt = 0],
              finalize |-> FALSE, transcript |-> FALSE ]
      [] ev = "hangup" ->
            [ sess |-> [sess EXCEPT !.status = "Completed", !.endedAt = t],
              finalize |-> TRUE, transcript |-> sess.hasTurns ]
      [] OTHER ->
            [ sess |-> [sess EXCEPT !.status = target, !.endedAt = t],
              finalize |-> TRUE, transcript |-> FALSE ]

\* handleTelephonyEvent for a session found in the registry: the session
\* after the event, whether the Finalizer is invoked, and the transcript
\* it is invoked with
HandleTelephonyEvent(sess, ev, target, t) ==
    IF sess.status \in TerminalStatuses
    THEN [sess |-> sess, finalize |-> FALSE, transcript |-> FALSE]
    ELSE IF sess.status = "Dialing" /\ ev = "answered"
    THEN [ sess |-> [sess EXCEPT !.status = "InProgress", !.startedAt = 0],
           finalize |-> FALSE, transcript |-> FALSE ]
    ELSE IF sess.status = "InProgress" /\ ev = "hangup"
    THEN [ sess |-> [sess EXCEPT !.status = "Completed", !.endedAt = t],
           finalize |-> TRUE, transcript |-> sess.hasTurns ]
    ELSE IF sess.status \in {"Dialing", "InProgress"}
            /\ ev \in {"busy", "no_answer", "error"}
    THEN [ sess |-> [sess EXCEPT !.status = target, !.endedAt = t],
           finalize |-> TRUE, transcript |-> FALSE ]
    ELSE [sess |-> sess, finalize |-> FALSE, transcript |-> FALSE]

\* the Finalizer is invoked for id with the given transcript
InvokeFinalizer(id, transcript) ==
    /\ finalizing' = Put(finalizing, id, transcript)
    /\ finalizeRuns' = Put(finalizeRuns, id, Runs(id) + 1)

\* eviction that depends on the persistence collaborator
EvictAfterFinalize_OnlyWhenPersisted(persistOk) == persistOk

\* the session is evicted whether persistence succeeded or not
EvictAfterFinalize(persistOk) == TRUE

\* the session as the Finalizer completes it
Finalized(sess, transcript, classifyOk, disp) ==
    [sess EXCEPT
        !.disposition = IF transcript /\ classifyOk THEN disp ELSE "Unknown",
        !.duration = IF ~transcript \/ sess.startedAt = NoTime
                     THEN 0
                     ELSE sess.endedAt - sess.startedAt]

(* ------------------------------ operations ----------------------------- *)

CreateCall ==
    \E phone \in PhoneInputs :
        IF ValidPhone(phone)
        THEN /\ nextId <= MaxCalls
             /\ Cardinality(DOMAIN registry) < MaxActive
             /\ registry' = Put(registry, nextId, NewSession(phone))
             /\ nextId' = nextId + 1
             /\ everCreated' = Append(everCreated, nextId)
             /\ lastOp' = Op("createCall", nextId, phone, "Created")
             /\ UNCHANGED << finalizing, finalizeRuns, persisted, dialogVars, bridgeVars,
                        outboundVars, formVars >>
        ELSE /\ lastOp' = Op("createCall", 0, phone, "InvalidArgument")
             /\ UNCHANGED << registry, nextId, everCreated, finalizing,
                             finalizeRuns, persisted, dialogVars, bridgeVars,
                        outboundVars, formVars >>

StartCall ==
    \E id \in DOMAIN registry :
        /\ registry[id].status = "Created"
        /\ registry' = [registry EXCEPT ![id].status = "Dialing"]
        /\ lastOp' = Op("startCall", id, << >>, "Dialing")
        /\ UNCHANGED << nextId, everCreated, finalizing, finalizeRuns, persisted, dialogVars, bridgeVars,
                        outboundVars, formVars >>

TelephonyEvent ==
    \E id \in CallIds, ev \in TelephonyEvents :
        IF id \notin DOMAIN registry
        THEN /\ lastOp' = Op("handleTelephonyEvent", id, ev, "NotFound")
             /\ UNCHANGED << registry, nextId, everCreated, finalizing,
                             finalizeRuns, persisted, dialogVars, bridgeVars,
                        outboundVars, formVars >>
        ELSE /\ registry[id].status # "Created"
             /\ \E target \in FailureStatuses(ev), t \in Elapsed :
                  LET r == HandleTelephonyEvent(registry[id], ev, target, t)
                  IN  /\ registry' = [registry EXCEPT ![id] = r.sess]
                      /\ IF r.finalize
                         THEN InvokeFinalizer(id, r.transcript)
                         ELSE UNCHANGED << finalizing, finalizeRuns >>
                      /\ lastOp' = Op("handleTelephonyEvent", id, ev,
                                      IF r.sess = registry[id] /\ ~r.finalize
                                      THEN "unchanged" ELSE "applied")
             /\ UNCHANGED << nextId, everCreated, persisted, dialogVars, bridgeVars,
                        outboundVars, formVars >>

\* the Dialog Turn Engine appends a turn to the transcript; of the
\* transcript the Finalizer reads only whether it is empty (hasTurns)
AppendTurn ==
    \E id \in DOMAIN registry :
        /\ registry[id].status = "InProgress"
        /\ registry' = [registry EXCEPT ![id].hasTurns = TRUE]
        /\ lastOp' = Op("appendTurn", id, << >>, "appended")
        /\ UNCHANGED << nextId, everCreated, finalizing, finalizeRuns, persisted, dialogVars, bridgeVars,
                        outboundVars, formVars >>

\* internal fatal error of a running dialog
EngineFatal ==
    \E id \in DOMAIN registry, t \in Elapsed :
        /\ registry[id].status = "InProgress"
        /\ registry' = [registry EXCEPT ![id].status = "Failed",
                                        ![id].endedAt = t]
        /\ InvokeFinalizer(id, registry[id].hasTurns)
        /\ lastOp' = Op("engineFatal", id, << >>, "Failed")
        /\ UNCHANGED << nextId, everCreated, persisted, dialogVars, bridgeVars,
                        outboundVars, formVars >>

\* a running Finalizer completes: classification, persistence, eviction
FinalizerComplete ==
    \E id \in DOMAIN finalizing, classifyOk \in BOOLEAN, persistOk \in BOOLEAN,
       disp \in Dispositions \ {"Unknown"} :
        /\ id \in DOMAIN registry
        /\ LET done == Finalized(registry[id], finalizing[id], classifyOk, disp)
           IN  /\ persisted' = IF persistOk THEN persisted \cup {id} ELSE persisted
               /\ registry' = IF EvictAfterFinalize(persistOk)
                              THEN Remove(registry, id)
                              ELSE [registry EXCEPT ![id] = done]
               /\ lastOp' = Op("finalize", id, done,
                               IF persistOk THEN "persisted" ELSE "persistFailed")
        /\ finalizing' = Remove(finalizing, id)
        /\ UNCHANGED << nextId, everCreated, finalizeRuns, dialogVars, bridgeVars,
                        outboundVars, formVars >>

NextSessions ==
    \/ CreateCall
    \/ StartCall
    \/ TelephonyEvent
    \/ AppendTurn
    \/ EngineFatal
    \/ FinalizerComplete

SpecSessions == Init /\ [][NextSessions]_vars

(* ---------------------- properties of the orchestrator ----------------- *)

\* the transition table of the Call Session Manager, row by row
\* (from, event, to); "Dial issued" is startCall and no telephony event
TransitionTable ==
    { <<"Dialing", "ringing", "Dialing">>,
      <<"Dialing", "answered", "InProgress">>,
      <<"InProgress", "hangup", "Completed">> }
    \cup { <<from, ev, to>> : from \in {"Dialing", "InProgress"},
                              ev \in {"busy", "no_answer", "error"},
                              to \in {"NoAnswer", "Failed"} }

\* statuses the table allows after ev in status st; no row, no transition
TableResults(st, ev) ==
    LET rows == {r \in TransitionTable : r[1] = st /\ r[2] = ev}
    IN  IF rows = {} THEN {st} ELSE {r[3] : r \in rows}

Range(f) == {f[i] : i \in DOMAIN f}

C18_FinalizedOnce ==
    /\ \A id \in Range(everCreated) :
          /\ Runs(id) <= 1
          /\ id \in DOMAIN registry =>
                /\ (registry[id].status \in TerminalStatuses) <=> (id \in DOMAIN finalizing)
                /\ (registry[id].status \in TerminalStatuses) <=> (Runs(id) = 1)
          /\ id \notin DOMAIN registry =>
                /\ Runs(id) = 1
                /\ id \notin DOMAIN finalizing
          /\ id \in persisted => id \notin DOMAIN registry
    /\ lastOp.op = "finalize" =>
          /\ lastOp.id \notin DOMAIN registry
          /\ lastOp.arg.status \in TerminalStatuses
          /\ lastOp.arg.startedAt = NoTime =>
                (lastOp.arg.disposition = "Unknown" /\ lastOp.arg.duration = 0)

\* a call that was never answered was finalized while persistence failed
C18_Witness ==
    /\ lastOp.op = "finalize"
    /\ lastOp.outcome = "persistFailed"
    /\ lastOp.arg.startedAt = NoTime
    /\ lastOp.id \notin DOMAIN registry
    /\ Runs(lastOp.id) = 1

BridgeCallIds == {"A", "B"}

\* the bridge's state as one record
BridgeCur == [activeCalls |-> activeCalls, voxCalls |-> voxCalls, wss |-> wss]

BridgeCommit(b, op, callId, status) ==
    /\ activeCalls' = b.activeCalls
    /\ voxCalls' = b.voxCalls
    /\ wss' = b.wss
    /\ bridgeOp' = [op |-> op, callId |-> callId, status |-> status]
    /\ UNCHANGED << dialogVars, sessionVars, outboundVars, formVars >>

\* a hangup that does nothing
HangupCall_Skipped(b, k) == b

\* call.hangup()
HangupCall(b, k) ==
    IF b.voxCalls[k].state \in {"dialing", "connected"}
    THEN [b EXCEPT !.voxCalls[k].state = "hangingUp"]
    ELSE b

\* ws.close()
CloseWs(b, w) ==
    IF b.wss[w].state = "open"
    THEN [b EXCEPT !.wss[w].state = "closing"]
    ELSE b

\* a cleanup that closes the WebSocket and keeps the entry
Cleanup_KeepEntry(b, callId) ==
    IF callId \in DOMAIN b.activeCalls /\ b.activeCalls[callId].ws # 0
    THEN [b EXCEPT !.wss[b.activeCalls[callId].ws].state =
                        IF @ = "open" THEN "closing" ELSE @]
    ELSE b

\* a cleanup that drops every entry of the Map
Cleanup_AllEntries(b, callId) ==
    [b EXCEPT !.activeCalls = << >>,
              !.wss = [w \in DOMAIN b.wss |->
                          IF /\ \E c \in DOMAIN b.activeCalls : b.activeCalls[c].ws = w
                             /\ b.wss[w].state = "open"
                          THEN [b.wss[w] EXCEPT !.state = "closing"]
                          ELSE b.wss[w]]]

\* function cleanup(callId)
Cleanup(b, callId) ==
    IF callId \in DOMAIN b.activeCalls
    THEN LET callData == b.activeCalls[callId]
             closed == IF callData.ws # 0 THEN CloseWs(b, callData.ws) ELSE b
         IN  [closed EXCEPT !.activeCalls =
                 [c \in DOMAIN b.activeCalls \ {callId} |-> b.activeCalls[c]]]
    ELSE b

\* async function connectToCall(callId), sdk.call having returned a call
ConnectToCall(b, callId) ==
    LET k == Len(b.voxCalls) + 1
        entry == IF callId \in DOMAIN b.activeCalls
                 THEN b.activeCalls[callId]
                 ELSE [call |-> 0, ws |-> 0]
    IN  [b EXCEPT
            !.voxCalls = Append(@, [id |-> callId, state |-> "dialing"]),
            !.activeCalls =
                [c \in DOMAIN b.activeCalls \cup {callId} |->
                    IF c = callId THEN [entry EXCEPT !.call = k]
                    ELSE b.activeCalls[c]]]

\* function connectToBackend(callId, voxCall)
ConnectToBackend(b, callId, k) ==
    LET w == Len(b.wss) + 1
        opened == [b EXCEPT !.wss = Append(@, [id |-> callId, call |-> k,
                                               state |-> "open"])]
    IN  IF callId \in DOMAIN b.activeCalls
        THEN [opened EXCEPT !.activeCalls[callId].ws = w]
        ELSE opened

(* ------------------------------- handlers ------------------------------ *)

\* app.post('/connect'): 400 without call_id, 500 when sdk.call throws
PostConnect ==
    \E callId \in BridgeCallIds \cup {""}, sdkOk \in BOOLEAN :
        IF callId = ""
        THEN BridgeCommit(BridgeCur, "connect", callId, 400)
        ELSE IF ~sdkOk
        THEN BridgeCommit(BridgeCur, "connect", callId, 500)
        ELSE /\ Len(voxCalls) < MaxVoxCalls
             /\ BridgeCommit(ConnectToCall(BridgeCur, callId), "connect", callId, 200)

\* CallEvents.Connected listener
VoxConnected ==
    \E k \in DOMAIN voxCalls :
        /\ voxCalls[k].state = "dialing"
        /\ BridgeCommit(
              ConnectToBackend([BridgeCur EXCEPT !.voxCalls[k].state = "connected"],
                               voxCalls[k].id, k),
              "voxConnected", voxCalls[k].id, 0)

\* CallEvents.Disconnected listener
VoxDisconnected ==
    \E k \in DOMAIN voxCalls :
        /\ voxCalls[k].state \in {"connected", "hangingUp"}
        /\ BridgeCommit(
              Cleanup([BridgeCur EXCEPT !.voxCalls[k].state = "ended"],
                      voxCalls[k].id),
              "voxDisconnected", voxCalls[k].id, 0)

\* CallEvents.Failed listener
VoxFailed ==
    \E k \in DOMAIN voxCalls :
        /\ voxCalls[k].state \in {"dialing", "hangingUp"}
        /\ BridgeCommit(
              Cleanup([BridgeCur EXCEPT !.voxCalls[k].state = "ended"],
                      voxCalls[k].id),
              "voxFailed", voxCalls[k].id, 0)

\* ws.on('close')
WsClose ==
    \E w \in DOMAIN wss :
        /\ wss[w].state \in {"open", "closing"}
        /\ BridgeCommit(
              Cleanup(HangupCall([BridgeCur EXCEPT !.wss[w].state = "closed"],
                                 wss[w].call),
                      wss[w].id),
              "wsClose", wss[w].id, 0)

\* ws.on('error'): logged
WsError ==
    \E w \in DOMAIN wss :
        /\ wss[w].state \in {"open", "closing"}
        /\ BridgeCommit(BridgeCur, "wsError", wss[w].id, 0)

\* app.post('/disconnect')
PostDisconnect ==
    \E callId \in BridgeCallIds \cup {""} :
        IF callId = ""
        THEN BridgeCommit(BridgeCur, "disconnect", callId, 400)
        ELSE IF callId \in DOMAIN activeCalls /\ activeCalls[callId].call # 0
        THEN BridgeCommit(
                Cleanup(HangupCall(BridgeCur, activeCalls[callId].call), callId),
                "disconnect", callId, 200)
        ELSE BridgeCommit(BridgeCur, "disconnect", callId, 404)

NextBridge ==
    \/ PostConnect
    \/ VoxConnected
    \/ VoxDisconnected
    \/ VoxFailed
    \/ WsClose
    \/ WsError
    \/ PostDisconnect

SpecBridge == Init /\ [][NextBridge]_vars

(* ------------------------- properties of the bridge -------------------- *)

\* C20 (cross-call isolation): a handler that runs for call id a (POST
\* /connect, POST /disconnect, an event of a VoxEngine call of a, close or
\* error of a WebSocket of a, each with the cleanup it calls) leaves, for
\* every other call id b, the activeCalls entry of b, every VoxEngine call
\* of b and every WebSocket of b as they were, and creates no call and no
\* WebSocket for b.
C20_Isolation ==
    [][ \A a \in BridgeCallIds : \A b \in BridgeCallIds \ {a} :
          (bridgeOp'.callId = a) =>
            /\ (b \in DOMAIN activeCalls') <=> (b \in DOMAIN activeCalls)
            /\ b \in DOMAIN activeCalls => activeCalls'[b] = activeCalls[b]
            /\ \A k \in DOMAIN voxCalls' :
                  voxCalls'[k].id = b => (k \in DOMAIN voxCalls /\ voxCalls'[k] = voxCalls[k])
            /\ \A w \in DOMAIN wss' :
                  wss'[w].id = b => (w \in DOMAIN wss /\ wss'[w] = wss[w])
      ]_vars

\* the WebSocket of A closed and A was cleaned up while B has its call and
\* its open WebSocket in the Map
C20_Witness ==
    /\ bridgeOp.op = "wsClose"
    /\ bridgeOp.callId = "A"
    /\ "A" \notin DOMAIN activeCalls
    /\ "B" \in DOMAIN activeCalls
    /\ activeCalls["B"].ws # 0
    /\ wss[activeCalls["B"].ws].state = "open"
    /\ voxCalls[activeCalls["B"].call].state = "connected"

(* ------------------ further properties of the dialog scenario ---------- *)

\* C21 (isProcessing is held): isProcessing stays true from the acceptance
\* of an utterance until its reply, closing or apology line has been
\* played; in particular a PlaybackFinished of a playback that barge-in
\* stopped, handled while the utterance is being processed and its
\* process_text request is in flight, leaves isProcessing true and starts
\* no capture.
C21_ProcessingHeld ==
    [][ (/\ lastEvent' = "PlaybackFinished"
         /\ ~playing
         /\ isProcessing
         /\ generatePending > 0) =>
            (isProcessing' /\ ~isListening') ]_vars

\* C29 (listener bookkeeping): at most one one-shot PlaybackFinished
\* listener registered by speak is pending, so that a PlaybackFinished
\* runs only the listener of the playback that finished.
C29_OneListener == Len(listeners) <= 1

\* C30: isListening and isProcessing are never both true.
C30_NoCaptureWhileProcessing == ~(isListening /\ isProcessing)

\* a reply is spoken for an accepted utterance: speak has called
\* startListening while isProcessing, and no capture was started
C30_Witness ==
    /\ lastEvent = "GenerateResponse"
    /\ FxHas(fx, <<"say", "reply">>)
    /\ isProcessing
    /\ isSpeaking
    /\ ~isListening
    /\ ~routed

LiveCallStates == {"dialing", "connected"}

\* C23 (no orphaned backend WebSocket): every WebSocket that is open is
\* the one stored in the activeCalls entry of its call id, so that
\* cleanup(callId) closes it.
C23_NoOrphanWs ==
    \A w \in DOMAIN wss :
        wss[w].state = "open" =>
            /\ wss[w].id \in DOMAIN activeCalls
            /\ activeCalls[wss[w].id].ws = w

\* C24 (no orphaned VoxEngine call): every VoxEngine call that is dialing
\* or connected is the one stored in the activeCalls entry of its call id,
\* also after a repeated POST /connect for that call id.
C24_NoOrphanCall ==
    \A k \in DOMAIN voxCalls :
        voxCalls[k].state \in LiveCallStates =>
            /\ voxCalls[k].id \in DOMAIN activeCalls
            /\ activeCalls[voxCalls[k].id].call = k

\* C25 (cleanup): after the Disconnected or Failed listener of a call of
\* call id a, or the close listener of a WebSocket of a, has run, a has no
\* entry in activeCalls and the WebSocket its entry stored is closing or
\* closed; the call of a WebSocket that closed is hung up or has ended; and
\* when a had no entry the cleanup changes neither the Map nor any
\* WebSocket other than the one that closed.
C25_Cleanup ==
    [][ \A a \in BridgeCallIds :
          (bridgeOp'.op \in {"voxDisconnected", "voxFailed", "wsClose"}
           /\ bridgeOp'.callId = a) =>
            /\ a \notin DOMAIN activeCalls'
            /\ (a \in DOMAIN activeCalls /\ activeCalls[a].ws # 0) =>
                  wss'[activeCalls[a].ws].state \in {"closing", "closed"}
            /\ \A w \in DOMAIN wss :
                  (wss[w].state # "closed" /\ wss'[w].state = "closed") =>
                      voxCalls'[wss[w].call].state \notin LiveCallStates
            /\ a \notin DOMAIN activeCalls =>
                  /\ activeCalls' = activeCalls
                  /\ \A w \in DOMAIN wss :
                        wss'[w].state # "closed" => wss'[w] = wss[w]
      ]_vars

\* the close event of a WebSocket that cleanup had closed arrived: the
\* entry was gone already, the call hung up
C25_Witness ==
    /\ bridgeOp.op = "wsClose"
    /\ bridgeOp.callId = "A"
    /\ "A" \notin DOMAIN activeCalls
    /\ \E w \in DOMAIN wss : wss[w].id = "A" /\ wss[w].state = "closed"
    /\ \E k \in DOMAIN voxCalls : voxCalls[k].id = "A" /\ voxCalls[k].state = "ended"

\* C26 (POST /disconnect): for a call_id that has an entry the stored call
\* is hung up, the entry is removed and the answer is 200 'disconnected';
\* for a call_id without an entry the answer is 404 and the Map, the calls
\* and the WebSockets are unchanged.
C26_Disconnect ==
    [][ \A a \in BridgeCallIds :
          (bridgeOp'.op = "disconnect" /\ bridgeOp'.callId = a) =>
            /\ a \in DOMAIN activeCalls =>
                  /\ bridgeOp'.status = 200
                  /\ a \notin DOMAIN activeCalls'
                  /\ voxCalls'[activeCalls[a].call].state \notin LiveCallStates
            /\ a \notin DOMAIN activeCalls =>
                  /\ bridgeOp'.status = 404
                  /\ activeCalls' = activeCalls
                  /\ voxCalls' = voxCalls
                  /\ wss' = wss
      ]_vars

\* a second POST /disconnect for A was answered 404
C26_Witness ==
    /\ bridgeOp.op = "disconnect"
    /\ bridgeOp.callId = "A"
    /\ bridgeOp.status = 404
    /\ \E k \in DOMAIN voxCalls : voxCalls[k].id = "A" /\ voxCalls[k].state = "hangingUp"

(***************************************************************************)
(* Outbound scenario (src/unnamed/part_004).                               *)
(*                                                                         *)
(* One VoxEngine session places one call, reports the call's progress to   *)
(* the webhook of the backend and hangs up ten seconds after the answer.   *)
(* The platform delivers Connected or Failed for a ringing call and        *)
(* Disconnected for an answered one (the callee hangs up, or the call was  *)
(* hung up by the scenario); a timer callback runs once its delay has      *)
(* passed; VoxEngine.terminate() ends the session and drops its timers.    *)
(***************************************************************************)

(* ------------------------------- inputs -------------------------------- *)

OutCallIds == {"A", "B"}

\* customData.webhook_url: absent (or empty), or present
WebhookUrls == {"", "url"}

\* the custom data of the session: whether it parses as JSON, and the
\* fields of the parsed object (caller_id: present or not)
CustomDataInputs ==
    [parses : BOOLEAN, call_id : OutCallIds, caller_id : BOOLEAN,
     webhook_url : WebhookUrls]

\* codes of a Failed event (SIP status codes)
FailCodes == {403, 404, 408, 480, 486, 487, 503, 603}

(* ------------------------------ functions ------------------------------ *)

FailReason_BusyOnly(code) == IF code = 486 THEN "busy" ELSE "error"

\* let reason = "error"; if (e.code === 486) ...; else if (480 || 408) ...
FailReason(code) ==
    IF code = 486 THEN "busy"
    ELSE IF code = 480 \/ code = 408 THEN "no_answer"
    ELSE "error"

\* sendWebhook(event, reason): the requests issued so far, plus this one
\* unless no webhook URL is configured
SendWebhook(event, reason) ==
    IF webhookUrl = "" THEN webhooks
    ELSE Append(webhooks, [event |-> event, call_id |-> customData,
                           reason |-> reason])

OutEvent(ev, code) == [event |-> ev, code |-> code]

(* ------------------------------- handlers ------------------------------ *)

\* AppEvents.Started
OutStarted ==
    \E d \in CustomDataInputs :
        /\ ~terminated
        /\ outEvent.event = "none"
        /\ outEvent' = OutEvent("Started", 0)
        /\ IF ~d.parses
           THEN \* JSON.parse throws: customData keeps the raw string
                /\ customData' = "raw"
                /\ terminated' = TRUE
                /\ UNCHANGED << webhookUrl, callSession >>
           ELSE /\ customData' = d.call_id
                /\ webhookUrl' = d.webhook_url
                /\ IF ~d.caller_id
                   THEN \* callerId.replace throws on undefined
                        /\ terminated' = TRUE
                        /\ UNCHANGED callSession
                   ELSE /\ callSession' = "ringing"
                        /\ UNCHANGED terminated
        /\ UNCHANGED << timers, webhooks >>
        /\ UNCHANGED << dialogVars, sessionVars, bridgeVars, formVars >>

\* onCallConnected
OutCallConnected ==
    /\ ~terminated
    /\ callSession = "ringing"
    /\ outEvent' = OutEvent("Connected", 0)
    /\ webhooks' = SendWebhook("Connected", "normal")
    /\ callSession' = "connected"
    /\ timers' = Put(timers, "hangup", HANGUP_DELAY_SEC)
    /\ UNCHANGED << customData, webhookUrl, terminated >>
    /\ UNCHANGED << dialogVars, sessionVars, bridgeVars, formVars >>

\* the callback of setTimeout(..., 10000)
OutHangupTimer ==
    /\ ~terminated
    /\ "hangup" \in DOMAIN timers
    /\ timers["hangup"] = 0
    /\ outEvent' = OutEvent("HangupTimer", 0)
    /\ timers' = Remove(timers, "hangup")
    /\ callSession' = IF callSession = "connected" THEN "hangingUp"
                      ELSE callSession
    /\ UNCHANGED << customData, webhookUrl, terminated, webhooks >>
    /\ UNCHANGED << dialogVars, sessionVars, bridgeVars, formVars >>

\* onCallDisconnected
OutCallDisconnected ==
    /\ ~terminated
    /\ callSession \in {"connected", "hangingUp"}
    /\ outEvent' = OutEvent("Disconnected", 0)
    /\ webhooks' = SendWebhook("Disconnected", "normal")
    /\ callSession' = "ended"
    /\ terminated' = TRUE
    /\ timers' = << >>
    /\ UNCHANGED << customData, webhookUrl >>
    /\ UNCHANGED << dialogVars, sessionVars, bridgeVars, formVars >>

\* onCallFailed
OutCallFailed ==
    \E code \in FailCodes :
        /\ ~terminated
        /\ callSession = "ringing"
        /\ outEvent' = OutEvent("Failed", code)
        /\ webhooks' = SendWebhook("Failed", FailReason(code))
        /\ callSession' = "failed"
        /\ timers' = Put(timers, "terminate", TERMINATE_DELAY_SEC)
        /\ UNCHANGED << customData, webhookUrl, terminated >>
        /\ UNCHANGED << dialogVars, sessionVars, bridgeVars, formVars >>

\* the callback of setTimeout(..., 1000)
OutTerminateTimer ==
    /\ ~terminated
    /\ "terminate" \in DOMAIN timers
    /\ timers["terminate"] = 0
    /\ outEvent' = OutEvent("TerminateTimer", 0)
    /\ terminated' = TRUE
    /\ timers' = << >>
    /\ UNCHANGED << callSession, customData, webhookUrl, webhooks >>
    /\ UNCHANGED << dialogVars, sessionVars, bridgeVars, formVars >>

\* a second passes; a timer that is due runs before the next one passes
OutTick ==
    /\ ~terminated
    /\ timers # << >>
    /\ \A n \in DOMAIN timers : timers[n] > 0
    /\ outEvent' = OutEvent("Tick", outEvent.code)
    /\ timers' = [n \in DOMAIN timers |-> timers[n] - 1]
    /\ UNCHANGED << callSession, customData, webhookUrl, terminated, webhooks >>
    /\ UNCHANGED << dialogVars, sessionVars, bridgeVars, formVars >>

NextOutbound ==
    \/ OutStarted
    \/ OutCallConnected
    \/ OutHangupTimer
    \/ OutCallDisconnected
    \/ OutCallFailed
    \/ OutTerminateTimer
    \/ OutTick

SpecOutbound == Init /\ [][NextOutbound]_vars

(* ------------------ properties of the outbound scenario ---------------- *)

\* the reason the backend is told for the code of a Failed event
ExpectedReason(code) ==
    CASE code = 486 -> "busy"
      [] code \in {480, 408} -> "no_answer"
      [] OTHER -> "error"

WebhooksOf(log, ev) == {i \in 1..Len(log) : log[i].event = ev}

Phones == {"", "+7999", "+79991234567"}

Languages == {"auto", "ru"}

\* err.response?.data?.detail of a failed request: absent, or a message
ErrorDetails == {"", "detail"}

(* ------------------------------ functions ------------------------------ *)

FormCur ==
    [ isSubmitting |-> isSubmitting, loading |-> loading, error |-> error,
      inFlight |-> inFlight, navigated |-> navigated, sent |-> sent ]

HandleSubmit_NoGuard(f) ==
    [f EXCEPT !.isSubmitting = TRUE, !.error = "", !.loading = TRUE,
              !.inFlight = @ + 1, !.sent = @ + 1]

\* handleSubmit, up to the await of createDemoSession
HandleSubmit(f) ==
    IF f.isSubmitting
    THEN f
    ELSE [f EXCEPT !.isSubmitting = TRUE, !.error = "", !.loading = TRUE,
                   !.inFlight = @ + 1, !.sent = @ + 1]

\* handleSubmit after the await: navigate, then finally
AfterResolved(f) ==
    [f EXCEPT !.inFlight = @ - 1, !.navigated = TRUE, !.loading = FALSE]

\* handleSubmit after the await: catch, then finally
AfterRejected(f, detail) ==
    [f EXCEPT !.inFlight = @ - 1,
              !.error = IF detail # "" THEN detail ELSE "default",
              !.isSubmitting = FALSE, !.loading = FALSE]

FormCommit(f, ev) ==
    /\ isSubmitting' = f.isSubmitting
    /\ loading' = f.loading
    /\ error' = f.error
    /\ inFlight' = f.inFlight
    /\ navigated' = f.navigated
    /\ sent' = f.sent
    /\ formEvent' = ev
    /\ UNCHANGED << dialogVars, sessionVars, bridgeVars, outboundVars >>

(* ------------------------------- handlers ------------------------------ *)

\* handleChange
HandleChange ==
    \/ \E v \in Phones :
          /\ formData' = [formData EXCEPT !.phone = v]
          /\ FormCommit(FormCur, "change")
    \/ \E v \in Languages :
          /\ formData' = [formData EXCEPT !.language = v]
          /\ FormCommit(FormCur, "change")

\* the form's submit event
Submit ==
    /\ formData.phone # ""
    /\ HandleSubmit(FormCur).sent <= MaxRequests
    /\ FormCommit(HandleSubmit(FormCur), "submit")
    /\ UNCHANGED formData

\* the createDemoSession promise resolves
RequestResolved ==
    /\ inFlight > 0
    /\ FormCommit(AfterResolved(FormCur), "resolved")
    /\ UNCHANGED formData

\* the createDemoSession promise rejects
RequestRejected ==
    \E detail \in ErrorDetails :
        /\ inFlight > 0
        /\ FormCommit(AfterRejected(FormCur, detail), "rejected")
        /\ UNCHANGED formData

NextForm ==
    \/ HandleChange
    \/ Submit
    \/ RequestResolved
    \/ RequestRejected

SpecForm == Init /\ [][NextForm]_vars

(* ----------------------- properties of the form ------------------------ *)

\* C28 (double-submission guard): at most one createDemoSession request is
\* in flight; a submit while one is in flight sends nothing and changes
\* nothing; the handling of a failed request releases the guard, and a
\* submit when no request is in flight and none has succeeded sends a new
\* request; once a request has succeeded no further request is sent.
C28_SubmitGuard ==
    [][ /\ inFlight' <= 1
        /\ (formEvent' = "submit" /\ inFlight > 0) =>
              (sent' = sent /\ inFlight' = inFlight /\
               isSubmitting' = isSubmitting /\ loading' = loading /\
               error' = error)
        /\ (formEvent' = "rejected") =>
              (~isSubmitting' /\ inFlight' = 0 /\ error' # "")
        /\ (formEvent' = "submit" /\ inFlight = 0 /\ ~navigated) =>
              (sent' = sent + 1 /\ inFlight' = 1 /\ isSubmitting')
        /\ navigated => (sent' = sent /\ inFlight' = 0)
      ]_vars

\* a request failed, the next submit sent a second one, which succeeded,
\* and a submit after that was ignored
C28_Witness ==
    /\ formEvent = "submit"
    /\ navigated
    /\ sent = 2
    /\ inFlight = 0
    /\ isSubmitting

(* ----------------- the greeting of the dialog scenario ----------------- *)

\* C22 (greeting): the get_greeting request is sent only when the call is
\* answered; a greeting is saved and spoken only in the handling of the
\* response of that request, and there the one
\* greeting of the call is saved to the history and then spoken, with the
\* same text: the backend's for a 200 response whose body parses and has
\* one, and otherwise (another code, an unparsable body, no greeting in
\* the body) the text configured at the start, from the custom data or the
\* built-in one, which nothing but the Started handler sets.  Whatever the response, the handler leaves the call
\* connected, the greeting playing, the capture started and one
\* PlaybackFinished listener registered.
C22_Greeting ==
    [][ /\ (lastEvent' = "GreetingResponse") =>
              /\ phase = "connected"
              /\ greetingPending
              /\ ~greetingPending'
              /\ greetingLog = << >>
              /\ LET g == IF /\ lastInput'.code = 200
                            /\ lastInput'.body = "greeting"
                         THEN "backend"
                         ELSE greetingMessage
                 IN  greetingLog' = << <<"save", g>>, <<"say", g>> >>
              /\ (lastInput'.code # 200 \/ lastInput'.body = "unparsable") =>
                    /\ greetingMessage \in ConfiguredGreetings
                    /\ greetingLog'[2] = <<"say", greetingMessage>>
              /\ fx' = << <<"saveAIMessage">>, <<"say", "greeting">>,
                          <<"sendMediaTo">> >>
              /\ phase' = "connected"
              /\ ~hungUp'
              /\ playing'
              /\ isSpeaking'
              /\ isListening'
              /\ ~isProcessing'
              /\ Len(listeners') = 1
        /\ (lastEvent' # "GreetingResponse") =>
              /\ greetingLog' = greetingLog
              /\ IF lastEvent' = "Started"
                 THEN /\ phase = "starting"
                      /\ greetingMessage' \in ConfiguredGreetings
                 ELSE greetingMessage' = greetingMessage
              /\ ~FxHas(fx', <<"say", "greeting">>)
              /\ (greetingPending' /\ ~greetingPending) =>
                    (lastEvent' = "Connected" /\ phase = "calling")
      ]_vars

\* get_greeting answered 500 for a call started with a custom greeting: the
\* custom greeting was saved and spoken
C22_Witness ==
    /\ lastEvent = "GreetingResponse"
    /\ lastInput.code = 500
    /\ greetingLog = << <<"save", "custom">>, <<"say", "custom">> >>
    /\ isSpeaking
    /\ isListening
====
